---- MODULE Spec2Model ----
(***************************************************************************)
(* Model of src/lepton_client.py: LeptonAIClient.search and the streaming  *)
(* decoder LeptonResponseParser.parse with its helpers _parse_contexts,    *)
(* _parse_questions and _clean_response_text.                              *)
(*                                                                         *)
(* A Python str is a sequence of one-character strings, so substring       *)
(* tests, re.sub and str.replace are computed character by character.      *)
(* A Python value obtained from json.loads is a tagged record              *)
(* [t |-> tag, v |-> payload]; None is the value tagged "null".            *)
(* Writes to stdout (print) are not part of the modelled state.            *)
(***************************************************************************)
EXTENDS Integers, Sequences, FiniteSets, TLC

VARIABLES pc, result, error, consumed, cleaned_text

vars == <<pc, result, error, consumed, cleaned_text>>

\* Largest number of lines the transport delivers in one response.
MaxLines == 2

----------------------------------------------------------------------------
(* String literals of the source, as character sequences.                  *)

K_contexts ==
    <<"c", "o", "n", "t", "e", "x", "t", "s">>

K_question ==
    <<"q", "u", "e", "s", "t", "i", "o", "n">>

K_name ==
    <<"n", "a", "m", "e">>

K_id ==
    <<"i", "d">>

K_url ==
    <<"u", "r", "l">>

K_thumbnailUrl ==
    <<"t", "h", "u", "m", "b", "n", "a", "i", "l", "U", "r", "l">>

K_datePublished ==
    <<"d", "a", "t", "e", "P", "u", "b", "l", "i", "s", "h", "e", "d">>

K_isFamilyFriendly ==
    <<"i", "s", "F", "a", "m", "i", "l", "y", "F", "r", "i", "e", "n", "d", "l", "y">>

K_displayUrl ==
    <<"d", "i", "s", "p", "l", "a", "y", "U", "r", "l">>

K_snippet ==
    <<"s", "n", "i", "p", "p", "e", "t">>

ContextsMarker ==
    <<"c", "o", "n", "t", "e", "x", "t", "s">>

QuestionMarker ==
    <<"\"", "q", "u", "e", "s", "t", "i", "o", "n", "\"">>

LLM_RESPONSE ==
    <<"_", "_", "L", "L", "M", "_", "R", "E", "S", "P", "O", "N", "S", "E", "_", "_">>

RELATED_QUESTIONS ==
    <<"_", "_", "R", "E", "L", "A", "T", "E", "D", "_", "Q", "U", "E", "S", "T", "I", "O", "N", "S", "_", "_">>

CitationOpen ==
    <<"[", "c", "i", "t", "a", "t", "i", "o", "n", ":">>

UtcOffset ==
    <<"+", "0", "0", ":", "0", "0">>

Digits ==
    {"0", "1", "2", "3", "4", "5", "6", "7", "8", "9"}

DigitVal ==
    ("0" :> 0) @@ ("1" :> 1) @@ ("2" :> 2) @@ ("3" :> 3) @@ ("4" :> 4) @@
    ("5" :> 5) @@ ("6" :> 6) @@ ("7" :> 7) @@ ("8" :> 8) @@ ("9" :> 9)

DigitChar ==
    <<"0", "1", "2", "3", "4", "5", "6", "7", "8", "9">>

----------------------------------------------------------------------------
(* Python str operations.                                                  *)

\* s[i..] starts with p
StartsAt(s, i, p) ==
    /\ i + Len(p) - 1 <= Len(s)
    /\ \A k \in 1..Len(p) : s[i + k - 1] = p[k]

\* p in s
Contains(s, p) ==
    \E i \in 1..(Len(s) + 1) : StartsAt(s, i, p)

\* s[i:]
From(s, i) ==
    IF i > Len(s) THEN <<>> ELSE SubSeq(s, i, Len(s))

RECURSIVE DigitRun(_, _)
\* number of consecutive digits of s starting at position i
DigitRun(s, i) ==
    IF i <= Len(s) /\ s[i] \in Digits THEN 1 + DigitRun(s, i + 1) ELSE 0

\* length of the match of \[citation:\d+\] at position i of s, 0 if none
CitationMatch(s, i) ==
    IF ~StartsAt(s, i, CitationOpen) THEN 0
    ELSE LET d == DigitRun(s, i + Len(CitationOpen))
             j == i + Len(CitationOpen) + d
         IN  IF d >= 1 /\ j <= Len(s) /\ s[j] = "]"
             THEN Len(CitationOpen) + d + 1
             ELSE 0

RECURSIVE ReSubCitation(_, _)
\* re.sub(r'\[citation:\d+\]', '', s), scanning from position i
ReSubCitation(s, i) ==
    IF i > Len(s) THEN <<>>
    ELSE LET m == CitationMatch(s, i)
         IN  IF m > 0 THEN ReSubCitation(s, i + m)
             ELSE <<s[i]>> \o ReSubCitation(s, i + 1)

RECURSIVE Replace(_, _, _, _)
\* s.replace(old, new), scanning from position i; old is non-empty
Replace(s, old, new, i) ==
    IF i > Len(s) THEN <<>>
    ELSE IF StartsAt(s, i, old) THEN new \o Replace(s, old, new, i + Len(old))
    ELSE <<s[i]>> \o Replace(s, old, new, i + 1)

RECURSIVE Strip(_)
\* s.strip() for the whitespace character " "
Strip(s) ==
    IF s = <<>> THEN s
    ELSE IF Head(s) = " " THEN Strip(Tail(s))
    ELSE IF s[Len(s)] = " " THEN Strip(SubSeq(s, 1, Len(s) - 1))
    ELSE s

_clean_response_text(text) ==
    LET t1 == ReSubCitation(text, 1)
        t2 == Replace(t1, <<" ", ".">>, <<".">>, 1)
    IN  t2 \o <<"\n">>

----------------------------------------------------------------------------
(* Python values produced by json.loads.                                   *)

JNull == [t |-> "null", v |-> <<>>]
JBool(b) == [t |-> "bool", v |-> b]
JNum(n) == [t |-> "num", v |-> n]
JStr(s) == [t |-> "str", v |-> s]
JArr(a) == [t |-> "arr", v |-> a]
\* an object is the sequence of its <<key, value>> members in text order
JObj(m) == [t |-> "obj", v |-> m]

None == JNull
EmptyStr == JStr(<<>>)

RECURSIVE NumText(_)
\* decimal text of a natural number
NumText(n) ==
    IF n < 10 THEN <<DigitChar[n + 1]>>
    ELSE NumText(n \div 10) \o <<DigitChar[(n % 10) + 1]>>

RECURSIVE JsonText(_), JoinValues(_, _), JoinMembers(_, _)
\* the compact JSON text of a value
JsonText(x) ==
    CASE x.t = "null" -> <<"n", "u", "l", "l">>
      [] x.t = "bool" -> IF x.v THEN <<"t", "r", "u", "e">>
                                ELSE <<"f", "a", "l", "s", "e">>
      [] x.t = "num" -> NumText(x.v)
      [] x.t = "str" -> <<"\"">> \o x.v \o <<"\"">>
      [] x.t = "arr" -> <<"[">> \o JoinValues(x.v, 1) \o <<"]">>
      [] x.t = "obj" -> <<"{">> \o JoinMembers(x.v, 1) \o <<"}">>

JoinValues(a, i) ==
    IF i > Len(a) THEN <<>>
    ELSE JsonText(a[i]) \o (IF i < Len(a) THEN <<",">> ELSE <<>>)
         \o JoinValues(a, i + 1)

JoinMembers(m, i) ==
    IF i > Len(m) THEN <<>>
    ELSE <<"\"">> \o m[i][1] \o <<"\"", ":">> \o JsonText(m[i][2])
         \o (IF i < Len(m) THEN <<",">> ELSE <<>>)
         \o JoinMembers(m, i + 1)

----------------------------------------------------------------------------
(* Python semantics of the values.                                         *)

isinstance_str(x) == x.t = "str"

isinstance_dict(x) == x.t = "obj"

\* bool(x): Python truthiness
bool(x) ==
    CASE x.t = "null" -> FALSE
      [] x.t = "bool" -> x.v
      [] x.t = "num" -> x.v # 0
      [] x.t \in {"str", "arr", "obj"} -> Len(x.v) > 0

\* key in d, for a dict d
HasKey(d, key) ==
    \E i \in 1..Len(d.v) : d.v[i][1] = key

\* d.get(key, default), for a dict d (json.loads keeps the last duplicate)
DictGet(d, key, default) ==
    IF HasKey(d, key)
    THEN LET i == CHOOSE k \in 1..Len(d.v) :
                      /\ d.v[k][1] = key
                      /\ \A j \in (k + 1)..Len(d.v) : d.v[j][1] # key
         IN  d.v[i][2]
    ELSE default

\* the values a for loop over x visits; iterable is FALSE where Python
\* raises TypeError ('int' / 'bool' / 'NoneType' object is not iterable)
PyIter(x) ==
    CASE x.t = "arr" -> [iterable |-> TRUE, items |-> x.v]
      [] x.t = "obj" -> [iterable |-> TRUE,
                         items |-> [i \in 1..Len(x.v) |-> JStr(x.v[i][1])]]
      [] x.t = "str" -> [iterable |-> TRUE,
                         items |-> [i \in 1..Len(x.v) |-> JStr(<<x.v[i]>>)]]
      [] OTHER -> [iterable |-> FALSE, items |-> <<>>]

----------------------------------------------------------------------------
(* datetime.fromisoformat, for the forms YYYY-MM-DD, optionally followed   *)
(* by one separator character and HH[:MM[:SS]], optionally followed by an  *)
(* offset +HH:MM or -HH:MM.  Fractional seconds are not modelled.          *)

AllDigits(s, i, j) ==
    \A k \in i..j : k <= Len(s) /\ s[k] \in Digits

Num2(s, i) == 10 * DigitVal[s[i]] + DigitVal[s[i + 1]]

Num4(s, i) == 100 * Num2(s, i) + Num2(s, i + 2)

IsLeap(y) == (y % 4 = 0 /\ y % 100 # 0) \/ y % 400 = 0

DaysIn(y, m) ==
    IF m = 2 THEN (IF IsLeap(y) THEN 29 ELSE 28)
    ELSE IF m \in {4, 6, 9, 11} THEN 30 ELSE 31

DateOk(s) ==
    /\ Len(s) >= 10
    /\ AllDigits(s, 1, 4) /\ s[5] = "-"
    /\ AllDigits(s, 6, 7) /\ s[8] = "-"
    /\ AllDigits(s, 9, 10)
    /\ Num4(s, 1) >= 1
    /\ Num2(s, 6) \in 1..12
    /\ Num2(s, 9) \in 1..DaysIn(Num4(s, 1), Num2(s, 6))

\* tm is "HH", "HH:MM" or "HH:MM:SS"
TimeOk(tm) ==
    /\ Len(tm) \in {2, 5, 8}
    /\ AllDigits(tm, 1, 2) /\ Num2(tm, 1) < 24
    /\ Len(tm) >= 5 => (tm[3] = ":" /\ AllDigits(tm, 4, 5) /\ Num2(tm, 4) < 60)
    /\ Len(tm) >= 8 => (tm[6] = ":" /\ AllDigits(tm, 7, 8) /\ Num2(tm, 7) < 60)

\* tz is "+HH:MM" or "-HH:MM"
OffsetOk(tz) ==
    /\ Len(tz) = 6
    /\ tz[1] \in {"+", "-"}
    /\ AllDigits(tz, 2, 3) /\ tz[4] = ":" /\ AllDigits(tz, 5, 6)
    /\ Num2(tz, 2) < 24 /\ Num2(tz, 5) < 60

HasOffset(rest) ==
    Len(rest) >= 6 /\ rest[Len(rest) - 5] \in {"+", "-"}

TimePart(rest) ==
    IF HasOffset(rest) THEN SubSeq(rest, 1, Len(rest) - 6) ELSE rest

OffsetPart(rest) ==
    IF HasOffset(rest) THEN SubSeq(rest, Len(rest) - 5, Len(rest)) ELSE <<>>

OffsetMinutes(tz) ==
    (IF tz[1] = "-" THEN -1 ELSE 1) * (60 * Num2(tz, 2) + Num2(tz, 5))

\* ok is FALSE where fromisoformat raises ValueError
fromisoformat(s) ==
    LET rest == From(s, 12)
        tm == TimePart(rest)
        tz == OffsetPart(rest)
        good == /\ DateOk(s)
                /\ Len(s) # 11
                /\ Len(s) > 10 => TimeOk(tm)
                /\ tz # <<>> => OffsetOk(tz)
    IN  IF ~good THEN [ok |-> FALSE, val |-> <<>>]
        ELSE [ok |-> TRUE,
              val |-> <<[year |-> Num4(s, 1), month |-> Num2(s, 6),
                         day |-> Num2(s, 9),
                         hour |-> IF Len(tm) >= 2 THEN Num2(tm, 1) ELSE 0,
                         minute |-> IF Len(tm) >= 5 THEN Num2(tm, 4) ELSE 0,
                         second |-> IF Len(tm) >= 8 THEN Num2(tm, 7) ELSE 0,
                         utcoffset |-> IF tz = <<>> THEN <<>>
                                       ELSE <<OffsetMinutes(tz)>>]>>]

----------------------------------------------------------------------------
(* Context and the record builders.                                        *)

\* Context.__post_init__: the asserts that hold of the constructed record
post_init_ok(c) ==
    /\ isinstance_str(c.name)
    /\ isinstance_str(c.id)
    /\ isinstance_str(c.url)
    /\ c.is_family_friendly \in BOOLEAN

\* the Context(...) call on the record c of its keyword arguments; raised is
\* TRUE where an assert of __post_init__ fails
Context(c) ==
    IF post_init_ok(c) THEN [raised |-> FALSE, exc |-> "", val |-> <<c>>]
    ELSE [raised |-> TRUE, exc |-> "AssertionError", val |-> <<>>]

\* is_family_friendly=bool(ctx.get('isFamilyFriendly', True))
FamilyFriendlyOf(ctx) ==
    bool(DictGet(ctx, K_isFamilyFriendly, JBool(TRUE)))

\* the date_published expression; the optional datetime is <<>> for None
DatePublishedOf(ctx) ==
    IF ~bool(DictGet(ctx, K_datePublished, None))
    THEN [raised |-> FALSE, exc |-> "", val |-> <<>>]
    ELSE LET d == DictGet(ctx, K_datePublished, EmptyStr)
         IN  IF ~isinstance_str(d)
             THEN [raised |-> TRUE, exc |-> "AttributeError", val |-> <<>>]
             ELSE LET r == fromisoformat(Replace(d.v, <<"Z">>, UtcOffset, 1))
                  IN  IF r.ok THEN [raised |-> FALSE, exc |-> "", val |-> r.val]
                      ELSE [raised |-> TRUE, exc |-> "ValueError", val |-> <<>>]

\* the body of the try statement for one element of the contexts value
BuildContext(ctx) ==
    IF ~isinstance_dict(ctx)
    THEN [raised |-> TRUE, exc |-> "AttributeError", val |-> <<>>]
    ELSE LET d == DatePublishedOf(ctx)
         IN  IF d.raised THEN d
             ELSE Context([name |-> DictGet(ctx, K_name, EmptyStr),
                           id |-> DictGet(ctx, K_id, EmptyStr),
                           url |-> DictGet(ctx, K_url, EmptyStr),
                           thumbnail_url |-> DictGet(ctx, K_thumbnailUrl, None),
                           date_published |-> d.val,
                           is_family_friendly |-> FamilyFriendlyOf(ctx),
                           display_url |-> DictGet(ctx, K_displayUrl, EmptyStr),
                           snippet |-> DictGet(ctx, K_snippet, EmptyStr)])

\* except (ValueError, AssertionError): the element is skipped
CaughtPerItem(exc) == exc \in {"ValueError", "AssertionError"}

RECURSIVE ContextsLoop(_, _, _)
\* the for loop of _parse_contexts from element i on, contexts built so far
ContextsLoop(items, i, contexts) ==
    IF i > Len(items) THEN [raised |-> FALSE, exc |-> "", val |-> contexts]
    ELSE LET b == BuildContext(items[i])
         IN  IF ~b.raised THEN ContextsLoop(items, i + 1, contexts \o b.val)
             ELSE IF CaughtPerItem(b.exc) THEN ContextsLoop(items, i + 1, contexts)
             ELSE [raised |-> TRUE, exc |-> b.exc, val |-> <<>>]

\* _parse_contexts on the value data = json.loads(line)
ParseContextsData(data) ==
    IF ~isinstance_dict(data)
    THEN [raised |-> TRUE, exc |-> "AttributeError", val |-> <<>>]
    ELSE LET it == PyIter(DictGet(data, K_contexts, JArr(<<>>)))
         IN  IF ~it.iterable
             THEN [raised |-> TRUE, exc |-> "TypeError", val |-> <<>>]
             ELSE ContextsLoop(it.items, 1, <<>>)

RECURSIVE QuestionsLoop(_, _)
\* [q["question"] for q in items if isinstance(q, dict) and "question" in q]
QuestionsLoop(items, i) ==
    IF i > Len(items) THEN <<>>
    ELSE (IF isinstance_dict(items[i]) /\ HasKey(items[i], K_question)
          THEN <<DictGet(items[i], K_question, None)>>
          ELSE <<>>) \o QuestionsLoop(items, i + 1)

\* _parse_questions on the value data = json.loads(value)
ParseQuestionsData(data) ==
    LET it == PyIter(data)
    IN  IF ~it.iterable
        THEN [raised |-> TRUE, exc |-> "TypeError", val |-> <<>>]
        ELSE [raised |-> FALSE, exc |-> "", val |-> QuestionsLoop(it.items, 1)]

----------------------------------------------------------------------------
(* The lines a response can carry.                                         *)

Str_a == JStr(<<"a">>)
Str_b == JStr(<<"b">>)
Str_q1 == JStr(<<"q", "1">>)
Str_q2 == JStr(<<"q", "2">>)

Elem_a == JObj(<< <<K_name, Str_a>> >>)
Elem_b == JObj(<< <<K_name, Str_b>> >>)
Elem_empty == JObj(<<>>)
Elem_ff(x) == JObj(<< <<K_name, Str_a>>, <<K_isFamilyFriendly, x>> >>)
Elem_badname == JObj(<< <<K_name, JNum(5)>> >>)
Elem_dateUtc ==
    JObj(<< <<K_datePublished,
              JStr(<<"2", "0", "2", "4", "-", "0", "1", "-", "0", "1", "T",
                     "0", "0", ":", "0", "0", ":", "0", "0", "Z">>)>> >>)
Elem_dateBad ==
    JObj(<< <<K_datePublished, JStr(<<"s", "o", "o", "n">>)>> >>)
Elem_dateNum == JObj(<< <<K_datePublished, JNum(5)>> >>)
Elem_full ==
    JObj(<< <<K_name, Str_a>>, <<K_id, JStr(<<"i">>)>>,
            <<K_url, JStr(<<"u">>)>>, <<K_thumbnailUrl, JStr(<<"t">>)>>,
            <<K_datePublished,
              JStr(<<"2", "0", "2", "4", "-", "0", "2", "-", "2", "9">>)>>,
            <<K_isFamilyFriendly, JBool(FALSE)>>,
            <<K_displayUrl, JStr(<<"d">>)>>, <<K_snippet, JStr(<<"s">>)>> >>)

ContextsObj(x) == JObj(<< <<K_contexts, x>> >>)
QuestionObj(x) == JObj(<< <<K_question, x>> >>)

\* JSON values whose text carries the substring contexts
ContextsValues ==
    { ContextsObj(JArr(<<>>)),
      ContextsObj(JArr(<<Elem_empty>>)),
      ContextsObj(JArr(<<Elem_a, Elem_b>>)),
      ContextsObj(JArr(<<Elem_ff(JNull)>>)),
      ContextsObj(JArr(<<Elem_ff(JBool(FALSE))>>)),
      ContextsObj(JArr(<<Elem_ff(JBool(TRUE))>>)),
      ContextsObj(JArr(<<Elem_ff(JNum(0))>>)),
      ContextsObj(JArr(<<Elem_ff(EmptyStr)>>)),
      ContextsObj(JArr(<<Elem_a, JNum(7), Elem_b>>)),
      ContextsObj(JArr(<<Elem_badname, Elem_b>>)),
      ContextsObj(JArr(<<Elem_dateUtc>>)),
      ContextsObj(JArr(<<Elem_a, Elem_dateBad, Elem_b>>)),
      ContextsObj(JArr(<<Elem_dateNum>>)),
      ContextsObj(JArr(<<Elem_full>>)),
      ContextsObj(JNum(5)),
      ContextsObj(JNull),
      ContextsObj(JStr(<<"a", "b">>)),
      ContextsObj(JObj(<<>>)),
      JArr(<<JStr(K_contexts)>>),
      JStr(K_contexts),
      JObj(<< <<K_name, JStr(K_contexts)>> >>),
      JArr(<<QuestionObj(JStr(K_contexts))>>) }

\* JSON values whose text carries "question" and not contexts
QuestionsValues ==
    { JArr(<<QuestionObj(Str_q1), QuestionObj(Str_q2)>>),
      JArr(<<QuestionObj(Str_q1), JNum(3), Elem_a>>),
      JArr(<<QuestionObj(EmptyStr)>>),
      JArr(<<QuestionObj(JNum(7))>>),
      JStr(K_question),
      QuestionObj(Str_q1) }

\* JSON values whose text carries neither marker
PlainValues ==
    { JNum(42), JBool(TRUE), JNull, JObj(<<>>), JArr(<<>>),
      JStr(<<"h", "i">>) }

JsonValues == ContextsValues \cup QuestionsValues \cup PlainValues

CitationExample ==
    <<"T", "h", "e", " ", "a", "n", "s", "w", "e", "r", " ", "i", "s", " ", "c", "o", "r", "r", "e", "c", "t", " ", "[", "c", "i", "t", "a", "t", "i", "o", "n", ":", "3", "]", " ", ".">>

TruncatedContexts ==
    <<"{", "\"", "c", "o", "n", "t", "e", "x", "t", "s", "\"", ":", "[", "{", "\"", "n", "a", "m", "e", "\"", ":", "\"", "a", "\"">>

PlainText ==
    <<"H", "e", "a", "t", " ", "f", "l", "o", "w", "s">>

ProseContexts ==
    <<"I", "n", " ", "s", "o", "m", "e", " ", "c", "o", "n", "t", "e", "x", "t", "s", " ", ".">>

\* lines that are not JSON texts
TextLines == {CitationExample, TruncatedContexts, PlainText, ProseContexts}

SentinelTokens == {LLM_RESPONSE, RELATED_QUESTIONS}

JsonLines == {JsonText(x) : x \in JsonValues}

Lines == JsonLines \cup TextLines \cup SentinelTokens \cup {<<>>}

\* the value each JSON text stands for
JsonParse == [l \in JsonLines |-> CHOOSE x \in JsonValues : JsonText(x) = l]

\* json.loads(line): ok is FALSE where it raises json.JSONDecodeError
json_loads(line) ==
    IF line \in JsonLines
    THEN [ok |-> TRUE, val |-> JsonParse[line]]
    ELSE [ok |-> FALSE, val |-> JNull]

_parse_contexts(line) == ParseContextsData(json_loads(line).val)

_parse_questions(value) == ParseQuestionsData(json_loads(value).val)

----------------------------------------------------------------------------
(* LeptonAIClient.search and LeptonResponseParser.parse.                   *)

\* arguments search is called with; the last one is not a str
Queries == {JStr(<<>>), JStr(<<" ">>), JStr(<<"q">>), JStr(<<" ", "q">>), JNum(1)}

\* not (not isinstance(query, str) or not query.strip())
ValidQuery(query) ==
    isinstance_str(query) /\ Strip(query.v) # <<>>

EmptyResult == [response |-> <<>>, contexts |-> <<>>, related_questions |-> <<>>]

NoError == [kind |-> "none", cause |-> ""]

\* raise ResponseParsingError(f"Failed to parse response: {str(e)}")
ResponseParsingError(exc) == [kind |-> "ResponseParsingError", cause |-> exc]

\* slip: a line with the contexts marker that fails JSON parsing is dropped
LineKindDropBroken(line) ==
    IF line = <<>> \/ line \in SentinelTokens THEN "continue"
    ELSE IF ~json_loads(line).ok
         THEN (IF Contains(line, ContextsMarker) THEN "none" ELSE "text")
    ELSE IF Contains(line, ContextsMarker) THEN "contexts"
    ELSE IF Contains(line, QuestionMarker) THEN "questions"
    ELSE "none"

\* the branch of the loop body that a line takes
LineKind(line) ==
    IF line = <<>> \/ line \in SentinelTokens THEN "continue"
    ELSE IF ~json_loads(line).ok THEN "text"
    ELSE IF Contains(line, ContextsMarker) THEN "contexts"
    ELSE IF Contains(line, QuestionMarker) THEN "questions"
    ELSE "none"

\* slip: the new contexts are appended to the old ones
AssignContextsAppend(res, val) == [res EXCEPT !.contexts = @ \o val]

\* result["contexts"] = val
AssignContexts(res, val) == [res EXCEPT !.contexts = val]

\* result["related_questions"] = val
AssignQuestions(res, val) == [res EXCEPT !.related_questions = val]

\* slip: the fragment is put in front of the text
AppendResponsePrepend(res, cleaned) == [res EXCEPT !.response = cleaned \o @]

\* result["response"] += cleaned
AppendResponse(res, cleaned) == [res EXCEPT !.response = @ \o cleaned]

Init ==
    /\ pc = "idle"
    /\ result = EmptyResult
    /\ error = NoError
    /\ consumed = <<>>
    /\ cleaned_text = <<>>

\* search: the query is rejected
SearchInvalid ==
    /\ pc = "idle"
    /\ \E query \in Queries : ~ValidQuery(query)
    /\ pc' = "raised"
    /\ error' = [kind |-> "ValidationError", cause |-> ""]
    /\ UNCHANGED <<result, consumed, cleaned_text>>

\* search: make_request catches requests.RequestException
SearchConnectFail ==
    /\ pc = "idle"
    /\ \E query \in Queries : ValidQuery(query)
    /\ pc' = "raised"
    /\ error' = [kind |-> "APIConnectionError", cause |-> "RequestException"]
    /\ UNCHANGED <<result, consumed, cleaned_text>>

\* search: make_request returns the response and parse starts on it
SearchOpen ==
    /\ pc = "idle"
    /\ \E query \in Queries : ValidQuery(query)
    /\ pc' = "open"
    /\ result' = EmptyResult
    /\ UNCHANGED <<error, consumed, cleaned_text>>

\* one iteration of the for loop of parse on the line the transport yields
ReadLine(line) ==
    /\ pc = "open"
    /\ Len(consumed) < MaxLines
    /\ consumed' = Append(consumed, line)
    /\ LET kind == LineKind(line)
       IN  CASE kind = "contexts" ->
                  LET r == _parse_contexts(line)
                  IN  IF r.raised
                      THEN /\ pc' = "raised"
                           /\ error' = ResponseParsingError(r.exc)
                           /\ UNCHANGED <<result, cleaned_text>>
                      ELSE /\ result' = AssignContexts(result, r.val)
                           /\ UNCHANGED <<pc, error, cleaned_text>>
             [] kind = "questions" ->
                  LET r == _parse_questions(line)
                  IN  IF r.raised
                      THEN /\ pc' = "raised"
                           /\ error' = ResponseParsingError(r.exc)
                           /\ UNCHANGED <<result, cleaned_text>>
                      ELSE /\ result' = AssignQuestions(result, r.val)
                           /\ UNCHANGED <<pc, error, cleaned_text>>
             [] kind = "text" ->
                  /\ cleaned_text' = _clean_response_text(line)
                  /\ result' = AppendResponse(result, cleaned_text')
                  /\ UNCHANGED <<pc, error>>
             [] OTHER -> UNCHANGED <<pc, result, error, cleaned_text>>

\* iter_lines is exhausted: return result
StreamEnd ==
    /\ pc = "open"
    /\ pc' = "done"
    /\ UNCHANGED <<result, error, consumed, cleaned_text>>

\* iter_lines raises a requests exception; except Exception catches it
ReadFail ==
    /\ pc = "open"
    /\ pc' = "raised"
    /\ error' = ResponseParsingError("RequestException")
    /\ UNCHANGED <<result, consumed, cleaned_text>>

Next ==
    \/ SearchInvalid
    \/ SearchConnectFail
    \/ SearchOpen
    \/ \E line \in Lines : ReadLine(line)
    \/ StreamEnd
    \/ ReadFail

Spec == Init /\ [][Next]_vars

----------------------------------------------------------------------------
(* Vocabulary of the properties.                                           *)

Last(s) == s[Len(s)]

IsSentinelLine(l) == l = <<>> \/ l \in SentinelTokens

ValidJson(l) == json_loads(l).ok

\* a line the decoder takes as a contexts payload / a questions payload
IsContextsPayload(l) ==
    ~IsSentinelLine(l) /\ ValidJson(l) /\ Contains(l, ContextsMarker)

IsQuestionsPayload(l) ==
    /\ ~IsSentinelLine(l) /\ ValidJson(l)
    /\ ~Contains(l, ContextsMarker) /\ Contains(l, QuestionMarker)

\* a line that fails JSON parsing
IsNonJsonLine(l) == ~IsSentinelLine(l) /\ ~ValidJson(l)

\* every line that is neither a sentinel nor a payload
IsUnclassifiedLine(l) ==
    ~IsSentinelLine(l) /\ ~IsContextsPayload(l) /\ ~IsQuestionsPayload(l)

\* a line with the contexts marker that fails JSON parsing
IsBrokenContextsLine(l) == IsNonJsonLine(l) /\ Contains(l, ContextsMarker)

RECURSIVE CleanedNonJson(_)
\* clean over the non-JSON lines of a stream, in order
CleanedNonJson(ls) ==
    IF ls = <<>> THEN <<>>
    ELSE (IF IsNonJsonLine(Head(ls)) THEN _clean_response_text(Head(ls))
          ELSE <<>>) \o CleanedNonJson(Tail(ls))

RECURSIVE CleanedUnclassified(_)
\* clean over the unclassified lines of a stream, in order
CleanedUnclassified(ls) ==
    IF ls = <<>> THEN <<>>
    ELSE (IF IsUnclassifiedLine(Head(ls)) THEN _clean_response_text(Head(ls))
          ELSE <<>>) \o CleanedUnclassified(Tail(ls))

RECURSIVE CleanedWithoutBroken(_)
\* clean over the non-JSON lines, the broken contexts lines left out
CleanedWithoutBroken(ls) ==
    IF ls = <<>> THEN <<>>
    ELSE (IF IsNonJsonLine(Head(ls)) /\ ~IsBrokenContextsLine(Head(ls))
          THEN _clean_response_text(Head(ls))
          ELSE <<>>) \o CleanedWithoutBroken(Tail(ls))

\* the parse was aborted by the content of a line, not by the transport
ContentAbort ==
    pc = "raised" /\ error.kind = "ResponseParsingError"
                  /\ error.cause # "RequestException"

\* the transport failed: at the request or at a read
TransportFailure == pc = "raised" /\ error.cause = "RequestException"

\* the last consumed line is a contexts payload holding an array
LastIsContextsArray ==
    /\ consumed # <<>>
    /\ IsContextsPayload(Last(consumed))
    /\ LET data == json_loads(Last(consumed)).val
       IN  isinstance_dict(data) /\ HasKey(data, K_contexts)
           /\ DictGet(data, K_contexts, JNull).t = "arr"

LastContextsElements ==
    DictGet(json_loads(Last(consumed)).val, K_contexts, JNull).v

\* an element from which a Context can be built
ValidElement(e) == isinstance_dict(e) /\ ~BuildContext(e).raised

RECURSIVE RecordsOfValid(_)
RecordsOfValid(es) ==
    IF es = <<>> THEN <<>>
    ELSE (IF ValidElement(Head(es)) THEN BuildContext(Head(es)).val ELSE <<>>)
         \o RecordsOfValid(Tail(es))

\* index of the last line of the stream satisfying P, 0 if none
LastIndex(ls, P(_)) ==
    IF \E i \in 1..Len(ls) : P(ls[i])
    THEN CHOOSE i \in 1..Len(ls) :
             P(ls[i]) /\ \A j \in (i + 1)..Len(ls) : ~P(ls[j])
    ELSE 0

----------------------------------------------------------------------------
(* Properties.                                                             *)

\* C1: for lines the transport delivers completely, parse raises no error,
\* whatever the content of the lines: every abort comes from the transport.
C1_ContentNeverAborts == ~ContentAbort

\* C2: every non-empty, non-sentinel line that is not a contexts or questions
\* payload is a text fragment, valid JSON without a marker included: the answer
\* text is the cleaned text of all those lines.
C2_UnclassifiedLinesAreText ==
    result.response = CleanedUnclassified(consumed)

\* C3: at every point of a decode the answer text is the concatenation, in
\* arrival order, of clean(line) over exactly the consumed lines taken as text
\* fragments (the lines failing JSON parsing); no other line changes it.
C3_ResponseIsOrderedConcat ==
    result.response = CleanedNonJson(consumed)

C3_Witness ==
    /\ pc = "done"
    /\ Len(consumed) = 2
    /\ IsNonJsonLine(consumed[1]) /\ IsNonJsonLine(consumed[2])
    /\ consumed[1] # consumed[2]
    /\ result.response # <<>>

\* C4: last value wins: in the returned result contexts is the sequence built
\* from the last contexts payload line and related_questions the one built from
\* the last questions payload line, each empty if no such line occurred.
C4_LastPayloadWins ==
    pc = "done" =>
        LET c == LastIndex(consumed, IsContextsPayload)
            q == LastIndex(consumed, IsQuestionsPayload)
        IN  /\ result.contexts =
                   IF c = 0 THEN <<>> ELSE _parse_contexts(consumed[c]).val
            /\ result.related_questions =
                   IF q = 0 THEN <<>> ELSE _parse_questions(consumed[q]).val

C4_Witness ==
    /\ pc = "done"
    /\ Len(consumed) = 2
    /\ IsContextsPayload(consumed[1]) /\ IsContextsPayload(consumed[2])
    /\ _parse_contexts(consumed[1]).val # <<>>
    /\ result.contexts # <<>>
    /\ result.contexts # _parse_contexts(consumed[1]).val

\* C5: for a contexts payload _parse_contexts returns exactly the records of
\* the valid elements of the array, in order; an invalid element (one that is
\* not an object included) is skipped on its own and aborts nothing.
C5_InvalidElementsSkipped ==
    LastIsContextsArray =>
        /\ ~ContentAbort
        /\ pc # "raised" =>
               result.contexts = RecordsOfValid(LastContextsElements)

\* C6: a failure to read from the transport surfaces a connection-kind error
\* (APIConnectionError) and no result is returned.
C6_ReadFailureIsConnectionError ==
    TransportFailure => error.kind = "APIConnectionError"

\* C7 as stated: a contexts line that fails JSON parsing does not abort the
\* decode, leaves contexts empty, and the answer text is the one the stream
\* produces with that line removed.
C7_BrokenContextsLineDropped ==
    /\ (pc = "raised" /\ consumed # <<>> /\ IsBrokenContextsLine(Last(consumed)))
           => ~ContentAbort
    /\ (/\ pc = "done"
        /\ \E i \in 1..Len(consumed) : IsBrokenContextsLine(consumed[i])
        /\ \A i \in 1..Len(consumed) : ~IsContextsPayload(consumed[i]))
           => /\ result.contexts = <<>>
              /\ result.response = CleanedWithoutBroken(consumed)

\* C7 amended: a contexts line that fails JSON parsing does not abort the
\* decode and leaves contexts empty, and it is taken as a text fragment: the
\* answer text is the one of the stream without the line, with clean(line)
\* inserted at the position of the line.
C7_BrokenContextsLineIsText ==
    /\ (pc = "raised" /\ consumed # <<>> /\ IsBrokenContextsLine(Last(consumed)))
           => ~ContentAbort
    /\ (/\ pc = "done"
        /\ \E i \in 1..Len(consumed) : IsBrokenContextsLine(consumed[i])
        /\ \A i \in 1..Len(consumed) : ~IsContextsPayload(consumed[i]))
           => /\ result.contexts = <<>>
              /\ \A i \in 1..Len(consumed) :
                     IsBrokenContextsLine(consumed[i])
                     => result.response =
                            CleanedNonJson(SubSeq(consumed, 1, i - 1))
                            \o _clean_response_text(consumed[i])
                            \o CleanedNonJson(
                                   SubSeq(consumed, i + 1, Len(consumed)))

C7_Witness ==
    /\ pc = "done"
    /\ consumed = <<PlainText, TruncatedContexts>>
    /\ result.contexts = <<>>

\* C8: for a questions payload array the result holds, in order, the values
\* under the question key of the elements that are objects with that key, and
\* every entry of related_questions is a non-empty text string.
C8_QuestionsAreNonEmptyText ==
    (/\ consumed # <<>>
     /\ IsQuestionsPayload(Last(consumed))
     /\ json_loads(Last(consumed)).val.t = "arr"
     /\ pc # "raised")
        => /\ Len(result.related_questions) =
                  Cardinality({i \in 1..Len(json_loads(Last(consumed)).val.v) :
                      LET e == json_loads(Last(consumed)).val.v[i]
                      IN  isinstance_dict(e) /\ HasKey(e, K_question)})
           /\ \A i \in 1..Len(result.related_questions) :
                  /\ isinstance_str(result.related_questions[i])
                  /\ result.related_questions[i].v # <<>>

\* C9: a built Context has is_family_friendly false only when the element's
\* isFamilyFriendly is the JSON boolean false; when the field is absent or is
\* no boolean (null, 0, "") it is true.
C9_FamilyFriendlyDefault ==
    (/\ LastIsContextsArray
     /\ pc # "raised"
     /\ Len(result.contexts) = Len(LastContextsElements))
        => \A i \in 1..Len(result.contexts) :
               LET f == DictGet(LastContextsElements[i], K_isFamilyFriendly,
                                JBool(TRUE))
               IN  result.contexts[i].is_family_friendly
                       = ~(f.t = "bool" /\ ~bool(f))

CitationExpected ==
    <<"T", "h", "e", " ", "a", "n", "s", "w", "e", "r", " ", "i", "s", " ", "c", "o", "r", "r", "e", "c", "t", ".", "\n">>

\* C10: clean removes every citation marker, leaves no space in front of the
\* period the marker preceded and appends one line break: the cleaned text of
\* "The answer is correct [citation:3] ." is "The answer is correct.\n".
C10_CleanExample ==
    (consumed # <<>> /\ IsNonJsonLine(Last(consumed)))
        => /\ \A i \in 1..Len(cleaned_text) : CitationMatch(cleaned_text, i) = 0
           /\ Last(cleaned_text) = "\n"
           /\ Last(consumed) = CitationExample => cleaned_text = CitationExpected

====
